---- MODULE Spec2Model ----
(***************************************************************************)
(* Model of the `share` module of iterators-collection: DoubleIterator     *)
(* (full grid of index pairs with the diagonal left out) and               *)
(* SingleLineIterator (one row of that grid), both borrowing one slice.    *)
(*                                                                         *)
(* The `filter` module's Exclude adapter (a blacklist in front of a wrapped  *)
(* iterator) is modelled next to them under its own specification.         *)
(*                                                                         *)
(* A raw pointer `*mut T` into the slice is represented by the index of    *)
(* the element it points to: two pointers alias iff their indices are      *)
(* equal, and a pointer is in bounds iff its index is < slice.len().       *)
(***************************************************************************)
EXTENDS Integers, Sequences, FiniteSets, TLC

\* ---------------------------------------------------------------- bounds
\* longest slice that is borrowed
MaxLen == 3
\* largest element value the callback writes (elements are 0..MaxVal)
MaxVal == 1
\* largest value of the machine word `usize` in the model (2^w - 1 scaled down)
UsizeMax == 7
\* the count of None results is kept up to this many
MaxNones == 2
\* longest sequence the iterator wrapped by Exclude runs over
MaxUnder == 3
\* longest blacklist handed to Exclude::with_blacklist
MaxBlacklist == 1
\* the blacklist is grown up to this many entries
MaxExcluded == 3

Values == 0..MaxVal

VARIABLES
    slice,          \* the borrowed slice (its elements), `slice: &'a mut [T]`
    iter,           \* which iterator holds the borrow: "none", "double", "single"
    first,          \* DoubleIterator.first
    second,         \* DoubleIterator.second
    index,          \* SingleLineIterator.index
    cur,            \* SingleLineIterator.cur
    pc,             \* "idle", "loop" / "callback" (inside safe_for_each), "panicked"
    overflowChecks, \* build profile: TRUE = arithmetic overflow panics, FALSE = it wraps
    live,           \* the pointers currently dereferenced into `&mut T` (as a sequence)
    op,             \* the last call made: <<name, argument 1, argument 2>>
    ret,            \* what the last call returned
    built,          \* how the live iterator was made: "none", "new", "from"
    origin,         \* how the cursor was last positioned: "new", "reset", "set", "from"
    posAt,          \* the cursor right after it was last positioned
    yielded,        \* pairs yielded since the cursor was positioned, up to the first None
    nones,          \* how many None were returned since the cursor was positioned (up to MaxNones)
    start,          \* the cursor when safe_for_each was entered
    calls           \* arguments of the callback invocations of the current safe_for_each

shareVars == <<slice, iter, first, second, index, cur, pc, overflowChecks, live,
               op, ret, built, origin, posAt, yielded, nones, start, calls>>

VARIABLES
    excluded,       \* Exclude.excluded, the blacklist (a Vec, in push order)
    under,          \* the sequence the wrapped iterator Exclude.cur runs over
    upos,           \* how many elements the wrapped iterator has handed out
    exOp,           \* the last call made on the Exclude: <<name, argument>>
    exRet,          \* what the last call on the Exclude returned
    exOrigin,       \* how the wrapped iterator got to its start: "new", "reset"
    exYielded,      \* values yielded by Exclude since the wrapped iterator's start
    exAdded,        \* the blacklist was grown since the wrapped iterator's start
    forced,         \* the blacklist had every addition been a force_exclude
    deduped         \* the blacklist had every addition been an exclude

exVars == <<excluded, under, upos, exOp, exRet, exOrigin, exYielded, exAdded,
            forced, deduped>>

vars == <<shareVars, exVars>>

\* a None was returned since the cursor was positioned
ended == nones > 0

\* ------------------------------------------------------- return values
None == [tag |-> "None", fst |-> 0, snd |-> 0]
Unit == [tag |-> "Unit", fst |-> 0, snd |-> 0]
Some(i, j) == [tag |-> "Some", fst |-> i, snd |-> j]
IsSome(r) == r.tag = "Some"
Pair(r) == <<r.fst, r.snd>>

len == Len(slice)

\* ------------------------------------------------ DoubleIterator, pure part

\* increment without the `first != second` test: the diagonal is not skipped
increment_no_skip(n, f, s) ==
    LET s1 == s + 1
        wrapped == s1 = n
        f2 == IF wrapped THEN f + 1 ELSE f
        s2 == IF wrapped THEN 0 ELSE s1
    IN  IF wrapped /\ f2 >= n
        THEN [ok |-> FALSE, first |-> f2, second |-> s2, iters |-> 1]
        ELSE [ok |-> TRUE, first |-> f2, second |-> s2, iters |-> 1]

\* increment that restarts the row at 1 instead of 0 after a wrap
RECURSIVE increment_wrap_to_one(_, _, _)
increment_wrap_to_one(n, f, s) ==
    LET s1 == s + 1
        wrapped == s1 = n
        f2 == IF wrapped THEN f + 1 ELSE f
        s2 == IF wrapped THEN 1 ELSE s1
    IN  IF wrapped /\ f2 >= n
        THEN [ok |-> FALSE, first |-> f2, second |-> 0, iters |-> 1]
        ELSE IF f2 # s2
             THEN [ok |-> TRUE, first |-> f2, second |-> s2, iters |-> 1]
             ELSE [increment_wrap_to_one(n, f2, s2) EXCEPT !.iters = @ + 1]

\* increment that steps back onto the previous column when it meets the diagonal
increment_skip_backward(n, f, s) ==
    LET s1 == s + 1
        wrapped == s1 = n
        f2 == IF wrapped THEN f + 1 ELSE f
        s2 == IF wrapped THEN 0 ELSE s1
    IN  IF wrapped /\ f2 >= n
        THEN [ok |-> FALSE, first |-> f2, second |-> s2, iters |-> 1]
        ELSE IF f2 # s2
             THEN [ok |-> TRUE, first |-> f2, second |-> s2, iters |-> 1]
             ELSE [ok |-> TRUE, first |-> f2, second |-> s2 - 1, iters |-> 1]

\* DoubleIterator::increment: the loop of `second += 1`, wrap, diagonal test;
\* iters counts the turns of the loop
RECURSIVE increment(_, _, _)
increment(n, f, s) ==
    LET s1 == s + 1
        wrapped == s1 = n
        f2 == IF wrapped THEN f + 1 ELSE f
        s2 == IF wrapped THEN 0 ELSE s1
    IN  IF wrapped /\ f2 >= n
        THEN [ok |-> FALSE, first |-> f2, second |-> s2, iters |-> 1]
        ELSE IF f2 # s2
             THEN [ok |-> TRUE, first |-> f2, second |-> s2, iters |-> 1]
             ELSE [increment(n, f2, s2) EXCEPT !.iters = @ + 1]

\* next that tests `second == len` instead of `first == len`
next_tests_second(n, f, s) ==
    IF s = n
    THEN [item |-> None, first |-> f, second |-> s]
    ELSE LET inc == increment(n, f, s)
         IN  [item |-> Some(f, s), first |-> inc.first, second |-> inc.second]

\* Iterator::next of DoubleIterator: the item and the cursor after the call
DoubleIterator_next(n, f, s) ==
    IF f = n
    THEN [item |-> None, first |-> f, second |-> s]
    ELSE LET inc == increment(n, f, s)
         IN  [item |-> Some(f, s), first |-> inc.first, second |-> inc.second]

\* set that assigns before it checks
set_assign_first(n, f, s, i, j) ==
    [ok |-> (i # j) /\ (i < n /\ j < n), first |-> i, second |-> j]

\* set that stores the two arguments the wrong way round
set_swapped(n, f, s, i, j) ==
    IF i = j \/ ~(i < n /\ j < n)
    THEN [ok |-> FALSE, first |-> f, second |-> s]
    ELSE [ok |-> TRUE, first |-> j, second |-> i]

\* DoubleIterator::set: both assertions come before both assignments
DoubleIterator_set(n, f, s, i, j) ==
    IF i = j
    THEN [ok |-> FALSE, first |-> f, second |-> s]
    ELSE IF ~(i < n /\ j < n)
         THEN [ok |-> FALSE, first |-> f, second |-> s]
         ELSE [ok |-> TRUE, first |-> i, second |-> j]

\* reset that only rewinds the column
reset_second_only(f, s) == [first |-> f, second |-> 1]

\* ResettableIterator::reset of DoubleIterator
DoubleIterator_reset(f, s) == [first |-> 0, second |-> 1]

\* the pairs a `for` loop over the iterator receives from cursor (f, s)
RECURSIVE DoubleConsume(_, _, _)
DoubleConsume(n, f, s) ==
    LET r == DoubleIterator_next(n, f, s)
    IN  IF IsSome(r.item)
        THEN <<Pair(r.item)>> \o DoubleConsume(n, r.first, r.second)
        ELSE <<>>

\* ------------------------------------------------------------ ghost log
Log(item) ==
    /\ ret' = item
    /\ yielded' = IF IsSome(item) /\ ~ended THEN Append(yielded, Pair(item)) ELSE yielded
    /\ nones' = IF IsSome(item) \/ nones = MaxNones THEN nones ELSE nones + 1

Positioned(how, a, b) ==
    /\ origin' = how
    /\ posAt' = <<a, b>>
    /\ yielded' = <<>>
    /\ nones' = 0

\* ------------------------------------------------- Exclude, pure part

\* values of T::Item
NoItem == [tag |-> "None", val |-> 0]
NoValue == [tag |-> "Unit", val |-> 0]
Item(v) == [tag |-> "Some", val |-> v]
IsItem(r) == r.tag = "Some"

\* the wrapped iterator's next: the slice iterator of the example,
\* `array.iter().cloned()`, which keeps returning None at the end
Wrapped_next(u, pos) ==
    IF pos < Len(u)
    THEN [item |-> Item(u[pos + 1]), pos |-> pos + 1]
    ELSE [item |-> NoItem, pos |-> pos]

\* the wrapped iterator's ResettableIterator::reset: back to the start
Wrapped_reset(pos) == 0

\* `self.excluded.iter().position(|x| x == &v).is_none()`
position_is_none(ex, v) == ~\E k \in 1..Len(ex) : ex[k] = v

\* next that gives up at the first blacklisted value
next_stops_at_excluded(u, pos, ex) ==
    LET w == Wrapped_next(u, pos)
    IN  IF ~IsItem(w.item)
        THEN [item |-> NoItem, pos |-> w.pos]
        ELSE IF position_is_none(ex, w.item.val)
             THEN [item |-> w.item, pos |-> w.pos]
             ELSE [item |-> NoItem, pos |-> w.pos]

\* Iterator::next of Exclude: pull from the wrapped iterator until a value
\* that is not blacklisted comes, or None
RECURSIVE Exclude_next(_, _, _)
Exclude_next(u, pos, ex) ==
    LET w == Wrapped_next(u, pos)
    IN  IF ~IsItem(w.item)
        THEN [item |-> NoItem, pos |-> w.pos]
        ELSE IF position_is_none(ex, w.item.val)
             THEN [item |-> w.item, pos |-> w.pos]
             ELSE Exclude_next(u, w.pos, ex)

\* Exclude::force_exclude
Exclude_force_exclude(ex, v) == Append(ex, v)

\* exclude that pushes without looking
exclude_always_pushes(ex, v) == Append(ex, v)

\* Exclude::exclude
Exclude_exclude(ex, v) ==
    IF position_is_none(ex, v) THEN Exclude_force_exclude(ex, v) ELSE ex

\* reset that also empties the blacklist
reset_clears_blacklist(pos, ex) == [pos |-> Wrapped_reset(pos), excluded |-> <<>>]

\* ResettableIterator::reset of Exclude: `self.cur.reset()`
Exclude_reset(pos, ex) == [pos |-> Wrapped_reset(pos), excluded |-> ex]

\* the values a `for` loop over the Exclude receives
RECURSIVE ExcludeConsume(_, _, _)
ExcludeConsume(u, pos, ex) ==
    LET r == Exclude_next(u, pos, ex)
    IN  IF IsItem(r.item)
        THEN <<r.item.val>> \o ExcludeConsume(u, r.pos, ex)
        ELSE <<>>

\* no Exclude exists
NoExclude ==
    /\ excluded = <<>> /\ under = <<>> /\ upos = 0
    /\ exOp = <<"none", 0>> /\ exRet = NoValue
    /\ exOrigin = "none" /\ exYielded = <<>> /\ exAdded = FALSE
    /\ forced = <<>> /\ deduped = <<>>

\* ------------------------------------------------------------------ Init
Init ==
    /\ slice \in UNION {[1..n -> {0}] : n \in 0..MaxLen}
    /\ overflowChecks \in BOOLEAN
    /\ iter = "none"
    /\ first = 0 /\ second = 0 /\ index = 0 /\ cur = 0
    /\ pc = "idle"
    /\ live = <<>>
    /\ op = <<"none", 0, 0>>
    /\ ret = Unit
    /\ built = "none"
    /\ origin = "none"
    /\ posAt = <<0, 0>>
    /\ yielded = <<>>
    /\ nones = 0
    /\ start = <<0, 0>>
    /\ calls = <<>>
    /\ NoExclude

\* --------------------------------------------- SingleLineIterator, pure part

\* `x += 1` on a usize: panics on overflow when overflow checks are on, wraps otherwise
add_one(x, checks) ==
    IF x = UsizeMax
    THEN [val |-> IF checks THEN x ELSE 0, panic |-> checks]
    ELSE [val |-> x + 1, panic |-> FALSE]

\* SingleLineIterator::new that always starts the moving index at 0
new_cur_zero(idx) == 0

\* SingleLineIterator::new: the initial value of `cur`
SingleLineIterator_new_cur(idx) == IF idx = 0 THEN 1 ELSE 0

\* next that does not step over the fixed index
next_no_skip(n, idx, c, checks) ==
    LET item == IF c >= n THEN None ELSE Some(idx, c)
        a1 == add_one(c, checks)
    IN  [item |-> item, cur |-> a1.val, panic |-> a1.panic]

\* Iterator::next of SingleLineIterator: the item, `cur` after the call, and
\* whether one of the two `cur += 1` overflowed with overflow checks on
SingleLineIterator_next(n, idx, c, checks) ==
    LET item == IF c >= n THEN None ELSE Some(idx, c)
        a1 == add_one(c, checks)
        a2 == IF ~a1.panic /\ a1.val = idx THEN add_one(a1.val, checks) ELSE a1
    IN  [item |-> item, cur |-> a2.val, panic |-> a2.panic]

\* ResettableIterator::reset of SingleLineIterator
SingleLineIterator_reset(idx, c) == 0

\* from that swaps the two indices
from_swapped(f, s) == [index |-> s, cur |-> f]

\* From<DoubleIterator> for SingleLineIterator
SingleLineIterator_from(f, s) == [index |-> f, cur |-> s]

\* safe_for_each that dereferences the first pointer twice
callback_args_first_twice(item) == <<item.fst, item.fst>>

\* safe_for_each: the two pointers turned into the callback's `&mut` arguments
callback_args(item) == <<item.fst, item.snd>>

\* ---------------------------------------------------------------- actions

\* DoubleIterator::new(slice)
DoubleNew ==
    /\ iter = "none" /\ pc = "idle"
    /\ op' = <<"DoubleIterator::new", 0, 0>>
    /\ ret' = Unit
    /\ IF len >= 2
       THEN /\ iter' = "double" /\ built' = "new"
            /\ first' = 0 /\ second' = 1
            /\ Positioned("new", 0, 1)
            /\ UNCHANGED pc
       ELSE /\ pc' = "panicked"
            /\ UNCHANGED <<iter, built, first, second, origin, posAt, yielded, nones>>
    /\ calls' = <<>> /\ start' = <<0, 0>>
    /\ UNCHANGED <<slice, index, cur, overflowChecks, live>>
    /\ UNCHANGED exVars

\* iter.next() on a DoubleIterator
DoubleNext ==
    /\ iter = "double" /\ pc = "idle"
    /\ LET r == DoubleIterator_next(len, first, second)
       IN  /\ first' = r.first /\ second' = r.second
           /\ Log(r.item)
    /\ op' = <<"DoubleIterator::next", 0, 0>>
    /\ UNCHANGED <<slice, iter, index, cur, pc, overflowChecks, live, built,
                   origin, posAt, start, calls>>
    /\ UNCHANGED exVars

\* iter.reset() on a DoubleIterator
DoubleReset ==
    /\ iter = "double" /\ pc = "idle"
    /\ LET r == DoubleIterator_reset(first, second)
       IN  /\ first' = r.first /\ second' = r.second
           /\ Positioned("reset", r.first, r.second)
    /\ op' = <<"DoubleIterator::reset", 0, 0>>
    /\ ret' = Unit
    /\ UNCHANGED <<slice, iter, index, cur, pc, overflowChecks, live, built, start, calls>>
    /\ UNCHANGED exVars

\* iter.set(i, j) on a DoubleIterator
DoubleSet(i, j) ==
    /\ iter = "double" /\ pc = "idle"
    /\ op' = <<"DoubleIterator::set", i, j>>
    /\ ret' = Unit
    /\ LET r == DoubleIterator_set(len, first, second, i, j)
       IN  /\ first' = r.first /\ second' = r.second
           /\ IF r.ok
              THEN Positioned("set", r.first, r.second) /\ UNCHANGED pc
              ELSE pc' = "panicked" /\ UNCHANGED <<origin, posAt, yielded, nones>>
    /\ UNCHANGED <<slice, iter, index, cur, overflowChecks, live, built, start, calls>>
    /\ UNCHANGED exVars

\* iter.safe_for_each(callback) on a DoubleIterator: entering the `for` loop
DoubleSafeForEach ==
    /\ iter = "double" /\ pc = "idle"
    /\ pc' = "loop"
    /\ start' = <<first, second>>
    /\ calls' = <<>>
    /\ op' = <<"DoubleIterator::safe_for_each", 0, 0>>
    /\ ret' = Unit
    /\ UNCHANGED <<slice, iter, first, second, index, cur, overflowChecks, live,
                   built, origin, posAt, yielded, nones>>
    /\ UNCHANGED exVars

\* one turn of the `for (i, j) in self` loop of DoubleIterator::safe_for_each:
\* next is called; a pair is dereferenced and handed to the callback, None
\* ends the loop and drops the iterator
DoubleLoop ==
    /\ iter = "double" /\ pc = "loop"
    /\ LET r == DoubleIterator_next(len, first, second)
       IN  /\ Log(r.item)
           /\ IF IsSome(r.item)
              THEN /\ first' = r.first /\ second' = r.second
                   /\ live' = callback_args(r.item)
                   /\ calls' = Append(calls, callback_args(r.item))
                   /\ pc' = "callback"
                   /\ UNCHANGED <<iter, built>>
              ELSE /\ first' = 0 /\ second' = 0
                   /\ iter' = "none" /\ built' = "none"
                   /\ pc' = "idle"
                   /\ UNCHANGED <<live, calls>>
    /\ UNCHANGED <<slice, index, cur, overflowChecks, op, origin, posAt, start>>
    /\ UNCHANGED exVars

\* the caller's closure runs with the two references: it may write through
\* either one; when it returns both references are gone
Callback(w, v) ==
    /\ pc = "callback"
    /\ slice' = IF w \in 1..2 /\ live[w] < len
                THEN [slice EXCEPT ![live[w] + 1] = v]
                ELSE slice
    /\ live' = <<>>
    /\ pc' = "loop"
    /\ UNCHANGED <<iter, first, second, index, cur, overflowChecks, op, ret, built,
                   origin, posAt, yielded, nones, start, calls>>
    /\ UNCHANGED exVars

\* SingleLineIterator::from(double)
SingleFrom ==
    /\ iter = "double" /\ pc = "idle"
    /\ LET r == SingleLineIterator_from(first, second)
       IN  /\ index' = r.index /\ cur' = r.cur
           /\ Positioned("from", r.index, r.cur)
    /\ iter' = "single" /\ built' = "from"
    /\ first' = 0 /\ second' = 0
    /\ op' = <<"SingleLineIterator::from", first, second>>
    /\ ret' = Unit
    /\ UNCHANGED <<slice, pc, overflowChecks, live, start, calls>>
    /\ UNCHANGED exVars

\* SingleLineIterator::new(slice, f)
SingleNew(f) ==
    /\ iter = "none" /\ pc = "idle"
    /\ op' = <<"SingleLineIterator::new", f, 0>>
    /\ ret' = Unit
    /\ IF f < len
       THEN /\ iter' = "single" /\ built' = "new"
            /\ index' = f /\ cur' = SingleLineIterator_new_cur(f)
            /\ Positioned("new", f, SingleLineIterator_new_cur(f))
            /\ UNCHANGED pc
       ELSE /\ pc' = "panicked"
            /\ UNCHANGED <<iter, built, index, cur, origin, posAt, yielded, nones>>
    /\ calls' = <<>> /\ start' = <<0, 0>>
    /\ UNCHANGED <<slice, first, second, overflowChecks, live>>
    /\ UNCHANGED exVars

\* one call of Iterator::next of SingleLineIterator, from `next` or from the
\* loop of safe_for_each. `get_unchecked_mut(index)` with index >= len is
\* undefined behaviour: the build either hands out the out-of-bounds pointer
\* or stops on the violated precondition (ub = TRUE).
SingleStep(ub) ==
    LET r == SingleLineIterator_next(len, index, cur, overflowChecks)
    IN  IF (ub /\ IsSome(r.item) /\ index >= len) \/ r.panic
        THEN /\ pc' = "panicked"
             /\ cur' = IF r.panic THEN r.cur ELSE cur
             /\ ret' = Unit
             /\ UNCHANGED <<iter, built, index, live, calls, yielded, nones>>
        ELSE /\ Log(r.item)
             /\ IF pc = "idle"
                THEN /\ cur' = r.cur
                     /\ UNCHANGED <<iter, built, index, pc, live, calls>>
                ELSE IF IsSome(r.item)
                THEN /\ cur' = r.cur
                     /\ live' = callback_args(r.item)
                     /\ calls' = Append(calls, callback_args(r.item))
                     /\ pc' = "callback"
                     /\ UNCHANGED <<iter, built, index>>
                ELSE /\ cur' = 0 /\ index' = 0
                     /\ iter' = "none" /\ built' = "none"
                     /\ pc' = "idle"
                     /\ UNCHANGED <<live, calls>>

\* iter.next() on a SingleLineIterator
SingleNext(ub) ==
    /\ iter = "single" /\ pc = "idle"
    /\ ub => index >= len /\ cur < len
    /\ SingleStep(ub)
    /\ op' = <<"SingleLineIterator::next", 0, 0>>
    /\ UNCHANGED <<slice, first, second, overflowChecks, origin, posAt, start>>
    /\ UNCHANGED exVars

\* iter.reset() on a SingleLineIterator
SingleReset ==
    /\ iter = "single" /\ pc = "idle"
    /\ cur' = SingleLineIterator_reset(index, cur)
    /\ Positioned("reset", index, SingleLineIterator_reset(index, cur))
    /\ op' = <<"SingleLineIterator::reset", 0, 0>>
    /\ ret' = Unit
    /\ UNCHANGED <<slice, iter, first, second, index, pc, overflowChecks, live,
                   built, start, calls>>
    /\ UNCHANGED exVars

\* iter.safe_for_each(callback) on a SingleLineIterator: entering the `for` loop
SingleSafeForEach ==
    /\ iter = "single" /\ pc = "idle"
    /\ pc' = "loop"
    /\ start' = <<index, cur>>
    /\ calls' = <<>>
    /\ op' = <<"SingleLineIterator::safe_for_each", 0, 0>>
    /\ ret' = Unit
    /\ UNCHANGED <<slice, iter, first, second, index, cur, overflowChecks, live,
                   built, origin, posAt, yielded, nones>>
    /\ UNCHANGED exVars

\* one turn of the `for (i, j) in self` loop of SingleLineIterator::safe_for_each
SingleLoop(ub) ==
    /\ iter = "single" /\ pc = "loop"
    /\ ub => index >= len /\ cur < len
    /\ SingleStep(ub)
    /\ UNCHANGED <<slice, first, second, overflowChecks, op, origin, posAt, start>>
    /\ UNCHANGED exVars

\* the iterator goes out of scope and the borrow of the slice ends
Drop ==
    /\ iter # "none" /\ pc = "idle"
    /\ iter' = "none" /\ built' = "none"
    /\ first' = 0 /\ second' = 0 /\ index' = 0 /\ cur' = 0
    /\ op' = <<"drop", 0, 0>>
    /\ ret' = Unit
    /\ origin' = "none" /\ posAt' = <<0, 0>> /\ yielded' = <<>> /\ nones' = 0
    /\ UNCHANGED <<slice, pc, overflowChecks, live, start, calls>>
    /\ UNCHANGED exVars

Next ==
    \/ DoubleNew
    \/ DoubleNext
    \/ DoubleReset
    \/ \E i, j \in 0..MaxLen : DoubleSet(i, j)
    \/ DoubleSafeForEach
    \/ DoubleLoop
    \/ \E w \in 0..2, v \in Values : Callback(w, v)
    \/ SingleFrom
    \/ \E f \in 0..MaxLen : SingleNew(f)
    \/ \E ub \in BOOLEAN : SingleNext(ub)
    \/ SingleReset
    \/ SingleSafeForEach
    \/ \E ub \in BOOLEAN : SingleLoop(ub)
    \/ Drop

Spec == Init /\ [][Next]_vars

\* ------------------------------------------------------ Exclude, actions

SeqsUpTo(S, k) == UNION {[1..n -> S] : n \in 0..k}

\* the state after Exclude::new(iterator) (empty blacklist) or
\* Exclude::with_blacklist(iterator, blacklist)
ExcludeInit ==
    /\ slice = <<>> /\ overflowChecks = FALSE
    /\ iter = "none"
    /\ first = 0 /\ second = 0 /\ index = 0 /\ cur = 0
    /\ pc = "idle"
    /\ live = <<>>
    /\ op = <<"none", 0, 0>>
    /\ ret = Unit
    /\ built = "none"
    /\ origin = "none"
    /\ posAt = <<0, 0>>
    /\ yielded = <<>>
    /\ nones = 0
    /\ start = <<0, 0>>
    /\ calls = <<>>
    /\ under \in SeqsUpTo(Values, MaxUnder)
    /\ excluded \in SeqsUpTo(Values, MaxBlacklist)
    /\ upos = 0
    /\ exOp = <<"new", 0>> /\ exRet = NoValue
    /\ exOrigin = "new" /\ exYielded = <<>> /\ exAdded = FALSE
    /\ forced = excluded /\ deduped = excluded

\* exclude.next()
ExcludeNext ==
    /\ LET r == Exclude_next(under, upos, excluded)
       IN  /\ upos' = r.pos
           /\ exRet' = r.item
           /\ exYielded' = IF IsItem(r.item) THEN Append(exYielded, r.item.val)
                           ELSE exYielded
    /\ exOp' = <<"next", 0>>
    /\ UNCHANGED <<excluded, under, exOrigin, exAdded, forced, deduped>>
    /\ UNCHANGED shareVars

\* exclude.exclude(v)
ExcludeExclude(v) ==
    /\ Len(forced) < MaxExcluded
    /\ excluded' = Exclude_exclude(excluded, v)
    /\ forced' = Exclude_force_exclude(forced, v)
    /\ deduped' = Exclude_exclude(deduped, v)
    /\ exAdded' = TRUE
    /\ exOp' = <<"exclude", v>> /\ exRet' = NoValue
    /\ UNCHANGED <<under, upos, exOrigin, exYielded>>
    /\ UNCHANGED shareVars

\* exclude.force_exclude(v)
ExcludeForceExclude(v) ==
    /\ Len(forced) < MaxExcluded
    /\ excluded' = Exclude_force_exclude(excluded, v)
    /\ forced' = Exclude_force_exclude(forced, v)
    /\ deduped' = Exclude_exclude(deduped, v)
    /\ exAdded' = TRUE
    /\ exOp' = <<"force_exclude", v>> /\ exRet' = NoValue
    /\ UNCHANGED <<under, upos, exOrigin, exYielded>>
    /\ UNCHANGED shareVars

\* exclude.reset()
ExcludeReset ==
    /\ LET r == Exclude_reset(upos, excluded)
       IN  upos' = r.pos /\ excluded' = r.excluded
    /\ exOrigin' = "reset" /\ exYielded' = <<>> /\ exAdded' = FALSE
    /\ exOp' = <<"reset", 0>> /\ exRet' = NoValue
    /\ UNCHANGED <<under, forced, deduped>>
    /\ UNCHANGED shareVars

ExcludeStep ==
    \/ ExcludeNext
    \/ \E v \in Values : ExcludeExclude(v)
    \/ \E v \in Values : ExcludeForceExclude(v)
    \/ ExcludeReset

ExcludeSpec == ExcludeInit /\ [][ExcludeStep]_vars

\* -------------------------------------------------------------- helpers
IsPrefix(a, b) == Len(a) <= Len(b) /\ SubSeq(b, 1, Len(a)) = a

\* the off-diagonal cells of the n x n grid in row-major order
RowMajor(n) ==
    [k \in 1..(n * (n - 1)) |->
        LET i == (k - 1) \div (n - 1)
            r == (k - 1) % (n - 1)
        IN  <<i, IF r < i THEN r ELSE r + 1>>]

\* the cells of row f without the diagonal cell, in ascending order
Row(n, f) == [k \in 1..(n - 1) |-> <<f, IF k - 1 < f THEN k - 1 ELSE k>>]

DoubleNextCalled == op[1] \in {"DoubleIterator::next", "DoubleIterator::safe_for_each"}
SingleNextCalled == op[1] \in {"SingleLineIterator::next", "SingleLineIterator::safe_for_each"}

\* ---------------------------------------------------------------- claims

\* C1: every pair a DoubleIterator yields, after any interleaving of new,
\* next, reset and successful set, has two different indices, both in [0, n).
C1_YieldedPairDistinctInRange ==
    (DoubleNextCalled /\ IsSome(ret)) =>
        /\ ret.fst # ret.snd
        /\ ret.fst \in 0..(len - 1)
        /\ ret.snd \in 0..(len - 1)

\* C1 witness: after a set, next yields the cell right after the diagonal
C1_Witness ==
    /\ op[1] = "DoubleIterator::next" /\ IsSome(ret)
    /\ origin = "set" /\ Len(yielded) >= 2
    /\ ret.snd = ret.fst + 1

\* C2: a fresh DoubleIterator driven by next yields the off-diagonal cells in
\* row-major order, each once, n*(n-1) of them, and then None.
C2_FreshTraversalIsRowMajor ==
    (iter = "double" /\ origin = "new") =>
        /\ IsPrefix(yielded, RowMajor(len))
        /\ ended => (yielded = RowMajor(len) /\ Len(yielded) = len * (len - 1))
        /\ (~ended /\ Len(yielded) = len * (len - 1)) => first = len

\* C2 witness: a fresh iterator over at least 3 elements is consumed to the end
C2_Witness ==
    /\ iter = "double" /\ origin = "new" /\ ended
    /\ len >= 3 /\ Len(yielded) = len * (len - 1)

\* C3: safe_for_each on a DoubleIterator calls the callback once per pair that
\* next produces from the entry cursor, in order; references are live only
\* during one callback, two of them, to two different elements.
C3_SafeForEachCallsPerPair ==
    (op[1] = "DoubleIterator::safe_for_each") =>
        /\ IsPrefix(calls, DoubleConsume(len, start[1], start[2]))
        /\ iter = "none" => calls = DoubleConsume(len, start[1], start[2])
        /\ \A k \in 1..Len(calls) : calls[k][1] # calls[k][2]
        /\ pc = "callback" => (live = calls[Len(calls)] /\ Len(live) = 2 /\ live[1] # live[2])
        /\ pc # "callback" => live = <<>>

\* C3 witness: a safe_for_each entered away from (0, 1) has run to its end
C3_Witness ==
    /\ op[1] = "DoubleIterator::safe_for_each" /\ iter = "none"
    /\ start[1] >= 1 /\ Len(calls) >= 3

\* C4: reset on a SingleLineIterator puts the moving index back to its
\* initial value (1 when the fixed index is 0, else 0) and keeps the fixed index.
C4_SingleResetRestoresInitialCur ==
    [][(op'[1] = "SingleLineIterator::reset") =>
          /\ cur' = (IF index = 0 THEN 1 ELSE 0)
          /\ index' = index]_vars

\* C5: a SingleLineIterator made by new(slice, f), after any interleaving of
\* next and reset, yields (and hands to the callback) only pairs with fixed
\* index f, moving index different from f, both in [0, n).
C5_SingleYieldsDistinctInRange ==
    (iter = "single" /\ built = "new") =>
        /\ (SingleNextCalled /\ IsSome(ret)) =>
              /\ ret.fst = index
              /\ ret.snd # index
              /\ ret.fst \in 0..(len - 1)
              /\ ret.snd \in 0..(len - 1)
        /\ pc = "callback" => (live[1] = index /\ live[2] # live[1])

\* C6: a SingleLineIterator made by new(slice, f) and driven by next yields
\* the n-1 cells of row f in ascending order of the moving index, then None.
C6_SingleTraversalIsRow ==
    (iter = "single" /\ built = "new" /\ origin = "new") =>
        /\ IsPrefix(yielded, Row(len, index))
        /\ ended => (yielded = Row(len, index) /\ Len(yielded) = len - 1)
        /\ (~ended /\ Len(yielded) = len - 1) => cur >= len

\* C6 witness: a row with the fixed index strictly inside is consumed to the end
C6_Witness ==
    /\ iter = "single" /\ built = "new" /\ origin = "new" /\ ended
    /\ index > 0 /\ index < len - 1
    /\ Len(yielded) = len - 1

\* C7: reset on a DoubleIterator in any state sets the cursor to (0, 1) and
\* leaves the slice alone; consuming the iterator after it gives the same
\* pairs as consuming a newly constructed one.
C7_ResetReplaysFromConstruction ==
    [][/\ (op'[1] = "DoubleIterator::reset") =>
             (first' = 0 /\ second' = 1 /\ slice' = slice)
       /\ (iter' = "double" /\ origin' = "reset") =>
             /\ IsPrefix(yielded', DoubleConsume(Len(slice'), 0, 1))
             /\ (nones' > 0) => yielded' = DoubleConsume(Len(slice'), 0, 1)]_vars

\* C7 witness: an iterator that was reset has been consumed to the end
C7_Witness ==
    /\ iter = "double" /\ origin = "reset" /\ ended
    /\ len >= 3 /\ Len(yielded) = len * (len - 1)

\* the pairs a DoubleIterator at cursor (f, s) still yields in row f
RowRest(n, f, s) == SelectSeq(DoubleConsume(n, f, s), LAMBDA p : p[1] = f)

\* C8: converting a DoubleIterator that is not exhausted keeps first as the
\* fixed index and second as the moving index; the SingleLineIterator then
\* yields exactly the rest of that row of the grid and is exhausted.
C8_FromYieldsRestOfRow ==
    /\ (op[1] = "SingleLineIterator::from") => (index = op[2] /\ cur = op[3])
    /\ (iter = "single" /\ built = "from" /\ origin = "from" /\ posAt[1] < len) =>
          /\ index = posAt[1]
          /\ IsPrefix(yielded, RowRest(len, posAt[1], posAt[2]))
          /\ ended => yielded = RowRest(len, posAt[1], posAt[2])
          /\ (~ended /\ yielded = RowRest(len, posAt[1], posAt[2])) => cur >= len

\* C8 witness: a conversion in the middle of a row, left of the diagonal, consumed to the end
C8_Witness ==
    /\ iter = "single" /\ built = "from" /\ origin = "from" /\ ended
    /\ posAt[1] < len /\ posAt[2] < posAt[1]
    /\ posAt # <<1, 0>>
    /\ Len(yielded) >= 2

\* C9: set(i, j) panics whenever i = j or an index is out of range, and then
\* the cursor is what it was before the call.
C9_SetFailsWithoutMutation ==
    [][(op'[1] = "DoubleIterator::set"
           /\ (op'[2] = op'[3] \/ op'[2] >= len \/ op'[3] >= len)) =>
          (pc' = "panicked" /\ first' = first /\ second' = second)]_vars

\* C9 witness: a set with an out-of-range index has panicked in mid-traversal
C9_Witness ==
    /\ pc = "panicked" /\ op[1] = "DoubleIterator::set"
    /\ op[2] # op[3] /\ op[3] >= len
    /\ first >= 1 /\ first < len

\* C10: next of a DoubleIterator returns None exactly when first = n; after a
\* None, a further next returns None again and does not move the cursor.
C10_ExhaustionIsIdempotent ==
    [][(op'[1] = "DoubleIterator::next") =>
          /\ (ret' = None) <=> (first = len)
          /\ (op[1] = "DoubleIterator::next" /\ ret = None) =>
                (ret' = None /\ first' = first /\ second' = second)]_vars

\* C10 witness: a second None in a row after a complete traversal
C10_Witness ==
    /\ op[1] = "DoubleIterator::next" /\ ret = None
    /\ nones >= 2 /\ Len(yielded) >= 2

\* C11: DoubleIterator::new panics iff the slice has fewer than 2 elements and
\* otherwise starts at (0, 1); SingleLineIterator::new panics iff the fixed
\* index is >= n and otherwise starts the moving index at 0, or 1 for index 0.
C11_ConstructorsFailExactlyOnPrecondition ==
    [][/\ (op'[1] = "DoubleIterator::new") =>
             /\ (pc' = "panicked") <=> (len < 2)
             /\ (pc' # "panicked") =>
                   (iter' = "double" /\ first' = 0 /\ second' = 1 /\ slice' = slice)
       /\ (op'[1] = "SingleLineIterator::new") =>
             /\ (pc' = "panicked") <=> (op'[2] >= len)
             /\ (pc' # "panicked") =>
                   /\ iter' = "single" /\ index' = op'[2] /\ slice' = slice
                   /\ cur' = (IF op'[2] = 0 THEN 1 ELSE 0)]_vars

\* C11 witness: SingleLineIterator::new with fixed index 0 over a slice that
\* was already written through has just succeeded
C11_Witness ==
    /\ op[1] = "SingleLineIterator::new" /\ op[2] = 0
    /\ iter = "single" /\ pc = "idle"
    /\ len >= 2 /\ \E k \in 1..len : slice[k] # 0

\* the off-diagonal cells from (i, j) on, in row-major order
RowMajorFrom(n, i, j) ==
    SelectSeq(RowMajor(n), LAMBDA p : p[1] > i \/ (p[1] = i /\ p[2] >= j))

\* C13: a successful set(i, j), from any state, makes the next call yield
\* (i, j) and the calls after it the row-major successors up to exhaustion.
C13_SetThenRowMajorSuccessors ==
    [][/\ (op'[1] = "DoubleIterator::set" /\ pc' # "panicked") =>
             (first' = op'[2] /\ second' = op'[3])
       /\ (iter' = "double" /\ origin' = "set") =>
             /\ IsPrefix(yielded', RowMajorFrom(Len(slice'), posAt'[1], posAt'[2]))
             /\ (nones' > 0) => yielded' = RowMajorFrom(Len(slice'), posAt'[1], posAt'[2])
       /\ (op[1] = "DoubleIterator::set" /\ pc = "idle"
              /\ op'[1] = "DoubleIterator::next") =>
             ret' = Some(op[2], op[3])]_vars

\* C13 witness: a set to the start of the middle row has been consumed to the end
C13_Witness ==
    /\ iter = "double" /\ origin = "set" /\ ended
    /\ posAt = <<1, 0>> /\ len >= 3
    /\ Len(yielded) = (len - 1) * (len - 1)

\* C14: a SingleLineIterator converted from a DoubleIterator in any state
\* (no reset since the conversion) yields only pairs of two different
\* indices that are both in [0, n).
C14_ConvertedYieldsInRange ==
    (iter = "single" /\ built = "from" /\ origin = "from"
        /\ SingleNextCalled /\ IsSome(ret)) =>
        /\ ret.fst \in 0..(len - 1)
        /\ ret.snd \in 0..(len - 1)
        /\ ret.fst # ret.snd

\* C15: after next of a SingleLineIterator returned None, a further next
\* returns None as well.
C15_SingleExhaustionIsIdempotent ==
    [][(op[1] = "SingleLineIterator::next" /\ ret = None
           /\ op'[1] = "SingleLineIterator::next") => ret' = None]_vars

LexLess(a, b) == a[1] < b[1] \/ (a[1] = b[1] /\ a[2] < b[2])

\* C18: from a valid cursor increment ends within two turns of its loop at a
\* lexicographically greater cursor, next moves the cursor forward, and no
\* run of next yields more than n*(n-1) pairs.
C18_IncrementTerminatesAndAdvances ==
    [][/\ (op'[1] = "DoubleIterator::next" /\ IsSome(ret')) =>
             LexLess(<<first, second>>, <<first', second'>>)
       /\ (iter' = "double" /\ first' < Len(slice')) =>
             LET r == increment(Len(slice'), first', second')
             IN  /\ r.iters <= 2
                 /\ LexLess(<<first', second'>>, <<r.first, r.second>>)
                 /\ r.ok <=> r.first < Len(slice')
       /\ (iter' = "double") => Len(yielded') <= Len(slice') * (Len(slice') - 1)]_vars

\* C18 witness: next has just gone through two turns of the loop of increment
\* (the cell before the diagonal was yielded) after a set
C18_Witness ==
    /\ op[1] = "DoubleIterator::next" /\ IsSome(ret)
    /\ origin = "set"
    /\ ret.snd + 1 = ret.fst
    /\ increment(len, ret.fst, ret.snd).iters = 2

Range(q) == {q[k] : k \in 1..Len(q)}
Smallest(S) == CHOOSE m \in S : \A x \in S : m <= x

\* the values of q that are not equal to any entry of the blacklist ex
NotDenied(q, ex) == SelectSeq(q, LAMBDA x : x \notin Range(ex))

\* C12: next of Exclude returns the first value of the wrapped iterator that
\* equals no blacklist entry and None when there is none left, so a run
\* yields the wrapped values that are not blacklisted, in order; the
\* blacklist only grows, so a value added to it is never yielded afterwards.
C12_ExcludeYieldsNotDenied ==
    [][/\ (exOp'[1] = "next") =>
             LET rest == {p \in (upos + 1)..Len(under) : under[p] \notin Range(excluded)}
             IN  IF rest = {}
                 THEN exRet' = NoItem /\ upos' = Len(under)
                 ELSE /\ exRet' = Item(under[Smallest(rest)])
                      /\ upos' = Smallest(rest)
       /\ (~exAdded') => exYielded' = NotDenied(SubSeq(under', 1, upos'), excluded')
       /\ (~exAdded' /\ exOp'[1] = "next" /\ exRet' = NoItem) =>
             exYielded' = NotDenied(under', excluded')
       /\ (exOp'[1] # "reset") => Range(excluded) \subseteq Range(excluded')
       /\ ExcludeConsume(<<1, 2, 3, 4, 5>>, 0, <<3, 5>>) = <<1, 2, 4>>]_vars

\* C12 witness: a run over three values with a blacklist ended after some
\* values were yielded and some were dropped
C12_Witness ==
    /\ exOp[1] = "next" /\ exRet = NoItem /\ ~exAdded
    /\ Len(under) = 3 /\ excluded # <<>>
    /\ exYielded # <<>> /\ Len(exYielded) < Len(under)

\* C16: exclude pushes only a value that is not in the blacklist yet,
\* force_exclude always pushes, and what next yields from then on is the same
\* whichever of the two made each addition.
C16_ExcludeAndForceExcludeAgree ==
    [][/\ (exOp'[1] = "exclude") =>
             excluded' = (IF exOp'[2] \in Range(excluded) THEN excluded
                          ELSE Append(excluded, exOp'[2]))
       /\ (exOp'[1] = "force_exclude") => excluded' = Append(excluded, exOp'[2])
       /\ ExcludeConsume(under', upos', excluded') = ExcludeConsume(under', upos', forced')
       /\ ExcludeConsume(under', upos', excluded') = ExcludeConsume(under', upos', deduped')
       /\ (exOp'[1] = "next") =>
             /\ exRet' = Exclude_next(under, upos, forced).item
             /\ exRet' = Exclude_next(under, upos, deduped).item]_vars

\* C16 witness: the blacklist holds a duplicate that exclude would not have
\* pushed, an exclude of a present value was a no-op, and next yielded a value
C16_Witness ==
    /\ Len(forced) > Len(excluded) /\ Len(excluded) > Len(deduped)
    /\ exOp[1] = "next" /\ IsItem(exRet)

\* C17: reset of Exclude restarts the wrapped iterator and leaves the
\* blacklist as it is; a run after it yields the wrapped sequence from its
\* start without the values blacklisted at that moment.
C17_ExcludeResetKeepsBlacklist ==
    [][/\ (exOp'[1] = "reset") =>
             (excluded' = excluded /\ under' = under /\ upos' = 0)
       /\ (exOrigin' = "reset" /\ ~exAdded') =>
             /\ IsPrefix(exYielded', NotDenied(under', excluded'))
             /\ (exOp'[1] = "next" /\ exRet' = NoItem) =>
                   exYielded' = NotDenied(under', excluded')]_vars

\* C17 witness: after a blacklist grown before the reset, the run after the
\* reset ended with some values yielded and some dropped
C17_Witness ==
    /\ exOrigin = "reset" /\ ~exAdded
    /\ exOp[1] = "next" /\ exRet = NoItem
    /\ Len(forced) > MaxBlacklist
    /\ exYielded # <<>> /\ Len(exYielded) < Len(under)
====
